---- MODULE Spec2Model ----
(***************************************************************************)
(* Tutorial organisation and series navigation of the learning hub         *)
(* (src/lib/tutorials.ts) over the `tutorials` content collection          *)
(* (src/content/config.ts).                                                *)
(*                                                                         *)
(* A content file is a slug plus its frontmatter.  A frontmatter is a      *)
(* record whose DOMAIN is the set of keys the author wrote, so an optional *)
(* key that is absent is absent from the record.  Dates are day numbers    *)
(* (what Date.getTime() orders by).                                        *)
(***************************************************************************)
EXTENDS Integers, Sequences, FiniteSets, TLC

VARIABLES files, PROD, result, calls

vars == <<files, PROD, result, calls>>

(***************************************************************************)
(* Bounds of the model.                                                    *)
(***************************************************************************)
MaxTutorials == 3
MaxOrder == 1
MaxDate == 2

(***************************************************************************)
(* JavaScript helpers.                                                     *)
(***************************************************************************)
Has(r, k) == k \in DOMAIN r

Null == [null |-> TRUE]

Range(s) == {s[i] : i \in 1..Len(s)}

\* The strings used as categories and tags, in UTF-16 code unit order.
CodeUnitOrder == <<"c", "devops", "memory", "programming", "rust">>

CodeUnitRank(str) == CHOOSE i \in 1..Len(CodeUnitOrder) : CodeUnitOrder[i] = str

\* Array.prototype.sort without a comparator: ascending by code units.
DefaultCompare(arr) ==
    [p \in Range(arr) \X Range(arr) |-> CodeUnitRank(p[1]) - CodeUnitRank(p[2])]

\* Array.prototype.sort(cmp): stable; an element moves left past exactly
\* the elements that compare greater than it.  cmp[<<a, b>>] is the value
\* of the comparator on the elements a and b of the array.
ArraySort(arr, cmp) ==
    LET Insert(sorted, x) ==
            LET after == {p \in 1..Len(sorted) :
                             \A q \in p..Len(sorted) : cmp[<<sorted[q], x>>] > 0}
                at == IF after = {} THEN Len(sorted) + 1
                      ELSE CHOOSE p \in after : \A q \in after : p <= q
            IN SubSeq(sorted, 1, at - 1) \o <<x>> \o SubSeq(sorted, at, Len(sorted))
        upto[k \in 0..Len(arr)] ==
            IF k = 0 THEN <<>> ELSE Insert(upto[k - 1], arr[k])
    IN upto[Len(arr)]

\* [...new Set(arr)]: first occurrences, in insertion order.
NewSet(arr) ==
    LET keep == {i \in 1..Len(arr) : \A j \in 1..(i - 1) : arr[j] # arr[i]}
        upto[k \in 0..Len(arr)] ==
            IF k = 0 THEN <<>>
            ELSE IF k \in keep THEN Append(upto[k - 1], arr[k]) ELSE upto[k - 1]
    IN upto[Len(arr)]

\* Array.prototype.flatMap over a sequence of sequences.
Flatten(arrs) ==
    LET upto[k \in 0..Len(arrs)] ==
            IF k = 0 THEN <<>> ELSE upto[k - 1] \o arrs[k]
    IN upto[Len(arrs)]

\* Array.prototype.findIndex: 0-based index of the first element that is
\* among the matching ones, or -1.
FindIndex(arr, matching) ==
    LET hits == {i \in 1..Len(arr) : arr[i] \in matching}
    IN IF hits = {} THEN -1
       ELSE (CHOOSE i \in hits : \A j \in hits : i <= j) - 1

(***************************************************************************)
(* src/content/config.ts: the schema of the tutorials collection.          *)
(***************************************************************************)
difficulties == <<"beginner", "intermediate", "advanced">>

statuses == {"draft", "in-progress", "complete"}

\* z.object({...}).safeParse(frontmatter).success
tutorialsSchemaAccepts(fm) ==
    /\ Has(fm, "title")
    /\ Has(fm, "description")
    /\ Has(fm, "category")
    /\ Has(fm, "difficulty") /\ fm.difficulty \in Range(difficulties)
    /\ Has(fm, "status") /\ fm.status \in statuses
    /\ Has(fm, "dateCreated")

\* The parsed data: tags default to the empty array.
tutorialsSchemaParse(fm) ==
    IF Has(fm, "tags") THEN fm ELSE [tags |-> <<>>] @@ fm

\* Every content file passes the schema; otherwise loading the collection
\* throws and no caller gets a list.
CollectionLoads(fs) == \A i \in 1..Len(fs) : tutorialsSchemaAccepts(fs[i].frontmatter)

\* getCollection('tutorials'): one entry per content file.
getCollection(fs) ==
    [i \in 1..Len(fs) |->
        [slug |-> fs[i].slug, data |-> tutorialsSchemaParse(fs[i].frontmatter)]]

(***************************************************************************)
(* src/lib/tutorials.ts                                                    *)
(***************************************************************************)
\* Variant: a production build keeps only the complete tutorials.
getPublishedTutorialsCompleteOnly(fs, prod) ==
    SelectSeq(getCollection(fs),
              LAMBDA e : IF prod THEN e.data.status = "complete" ELSE TRUE)

getPublishedTutorials(fs, prod) ==
    SelectSeq(getCollection(fs),
              LAMBDA e : IF prod THEN e.data.status # "draft" ELSE TRUE)

\* Variant: the categories are returned in insertion order, unsorted.
getCategoriesUnsorted(fs, prod) ==
    LET tutorials == getPublishedTutorials(fs, prod)
    IN NewSet([i \in 1..Len(tutorials) |-> tutorials[i].data.category])

getCategories(fs, prod) ==
    LET tutorials == getPublishedTutorials(fs, prod)
        categories == NewSet([i \in 1..Len(tutorials) |-> tutorials[i].data.category])
    IN ArraySort(categories, DefaultCompare(categories))

getTags(fs, prod) ==
    LET tutorials == getPublishedTutorials(fs, prod)
        tags == NewSet(Flatten([i \in 1..Len(tutorials) |-> tutorials[i].data.tags]))
    IN ArraySort(tags, DefaultCompare(tags))

\* Variant: only an absent series counts as no series.
HasSeriesKey(t) == Has(t.data, "series")

\* t.data.series as a condition: absent and "" are falsy.
HasSeries(t) == Has(t.data, "series") /\ t.data.series # ""

\* Variant: dateUpdated is ignored.
EffectiveDateCreatedOnly(t) == t.data.dateCreated

\* a.data.dateUpdated || a.data.dateCreated (a Date is always truthy)
EffectiveDate(t) ==
    IF Has(t.data, "dateUpdated") THEN t.data.dateUpdated ELSE t.data.dateCreated

\* Variant: a comparator that answers only "newer or not", so equal dates
\* compare as out of order.
StandaloneCompareNoTie(arr) ==
    [p \in Range(arr) \X Range(arr) |->
        IF EffectiveDate(p[1]) > EffectiveDate(p[2]) THEN -1 ELSE 1]

\* Comparator of the standalone sort, tabulated over the array it sorts.
StandaloneCompare(arr) ==
    [p \in Range(arr) \X Range(arr) |-> EffectiveDate(p[2]) - EffectiveDate(p[1])]

\* t.data.seriesOrder || 0
OrganizedOrder(t) ==
    IF Has(t.data, "seriesOrder") THEN t.data.seriesOrder ELSE 0

\* Variant: descending seriesOrder.
OrganizedCompareDescending(arr) ==
    [p \in Range(arr) \X Range(arr) |-> OrganizedOrder(p[2]) - OrganizedOrder(p[1])]

\* Variant: a comparator that answers only "smaller or not", so equal
\* orders compare as out of order.
OrganizedCompareNoTie(arr) ==
    [p \in Range(arr) \X Range(arr) |->
        IF OrganizedOrder(p[1]) < OrganizedOrder(p[2]) THEN -1 ELSE 1]

\* Comparator of the sort of a series' items in getOrganizedTutorials.
OrganizedCompare(arr) ==
    [p \in Range(arr) \X Range(arr) |-> OrganizedOrder(p[1]) - OrganizedOrder(p[2])]

\* difficulties.indexOf(d), 0-based.
DifficultyIndex(d) ==
    FindIndex(difficulties, {d})

\* Variant: the reduce keeps the difficulty of the last item that is not a
\* beginner item, whatever the maximum so far.
HighestDifficultyLastWins(items) ==
    LET upto[k \in 0..Len(items)] ==
            IF k = 0 THEN "beginner"
            ELSE IF DifficultyIndex(items[k].data.difficulty) > 0
                 THEN items[k].data.difficulty
                 ELSE upto[k - 1]
    IN upto[Len(items)]

\* The reduce that computes a series' difficulty, started at 'beginner'.
HighestDifficulty(items) ==
    LET upto[k \in 0..Len(items)] ==
            IF k = 0 THEN "beginner"
            ELSE IF DifficultyIndex(items[k].data.difficulty) > DifficultyIndex(upto[k - 1])
                 THEN items[k].data.difficulty
                 ELSE upto[k - 1]
    IN upto[Len(items)]

\* Variant: a newly seen series is put in front of the ones seen before.
SeriesMapNewestFirst(tutorials) ==
    LET withSeries == SelectSeq(tutorials, HasSeries)
        keys == NewSet([i \in 1..Len(withSeries) |-> withSeries[i].data.series])
    IN [k \in 1..Len(keys) |->
           [slug |-> keys[Len(keys) + 1 - k],
            items |-> SelectSeq(withSeries,
                                LAMBDA t : t.data.series = keys[Len(keys) + 1 - k])]]

\* The Map from series slug to its members: keys in first-insertion order,
\* each value in input order.
SeriesMap(tutorials) ==
    LET withSeries == SelectSeq(tutorials, HasSeries)
        keys == NewSet([i \in 1..Len(withSeries) |-> withSeries[i].data.series])
    IN [k \in 1..Len(keys) |->
           [slug |-> keys[k],
            items |-> SelectSeq(withSeries, LAMBDA t : t.data.series = keys[k])]]

\* Variant: the index is always the first item.
MakeSeriesFirstItem(slug, unsorted) ==
    LET items == ArraySort(unsorted, OrganizedCompare(unsorted))
        index == items[1]
    IN [slug |-> slug,
        title |-> index.data.title,
        description |-> index.data.description,
        tutorials |-> items,
        category |-> index.data.category,
        difficulty |-> HighestDifficulty(items)]

\* Variant: the index tutorial is taken out of the members.
MakeSeriesIndexExcluded(slug, unsorted) ==
    LET items == ArraySort(unsorted, OrganizedCompare(unsorted))
        zero == FindIndex(items, {t \in Range(items) :
                                     Has(t.data, "seriesOrder") /\ t.data.seriesOrder = 0})
        index == IF zero >= 0 THEN items[zero + 1] ELSE items[1]
    IN [slug |-> slug,
        title |-> index.data.title,
        description |-> index.data.description,
        tutorials |-> SelectSeq(items, LAMBDA t : t # index),
        category |-> index.data.category,
        difficulty |-> HighestDifficulty(items)]

\* One entry of the `series` array, built from one entry of the Map.
MakeSeries(slug, unsorted) ==
    LET items == ArraySort(unsorted, OrganizedCompare(unsorted))
        zero == FindIndex(items, {t \in Range(items) :
                                     Has(t.data, "seriesOrder") /\ t.data.seriesOrder = 0})
        index == IF zero >= 0 THEN items[zero + 1] ELSE items[1]
    IN [slug |-> slug,
        title |-> index.data.title,
        description |-> index.data.description,
        tutorials |-> items,
        category |-> index.data.category,
        difficulty |-> HighestDifficulty(items)]

\* Variant: the categories of what the listing shows as cards, that is the
\* standalone tutorials and the first member of each series.
CategoriesOfCards(tutorials) ==
    LET seriesMap == SeriesMap(tutorials)
        cards == SelectSeq(tutorials, LAMBDA t : ~HasSeries(t))
                    \o [k \in 1..Len(seriesMap) |-> seriesMap[k].items[1]]
        categories == NewSet([i \in 1..Len(cards) |-> cards[i].data.category])
    IN ArraySort(categories, DefaultCompare(categories))

Categories(tutorials) ==
    LET categories == NewSet([i \in 1..Len(tutorials) |-> tutorials[i].data.category])
    IN ArraySort(categories, DefaultCompare(categories))

\* Variant: map instead of flatMap, so only the first tag of a tutorial
\* is collected.
TagsFirstOnly(tutorials) ==
    LET tagged == SelectSeq(tutorials, LAMBDA t : Len(t.data.tags) > 0)
        tags == NewSet([i \in 1..Len(tagged) |-> tagged[i].data.tags[1]])
    IN ArraySort(tags, DefaultCompare(tags))

Tags(tutorials) ==
    LET tags == NewSet(Flatten([i \in 1..Len(tutorials) |-> tutorials[i].data.tags]))
    IN ArraySort(tags, DefaultCompare(tags))

Standalone(tutorials) ==
    LET withoutSeries == SelectSeq(tutorials, LAMBDA t : ~HasSeries(t))
    IN ArraySort(withoutSeries, StandaloneCompare(withoutSeries))

getOrganizedTutorials(fs, prod) ==
    LET tutorials == getPublishedTutorials(fs, prod)
        seriesMap == SeriesMap(tutorials)
    IN [standalone |-> Standalone(tutorials),
        series |-> [k \in 1..Len(seriesMap) |->
                       MakeSeries(seriesMap[k].slug, seriesMap[k].items)],
        categories |-> Categories(tutorials),
        tags |-> Tags(tutorials)]

\* Variant: a missing seriesOrder sorts after every explicit one.
SeriesOrderMissingLast(t) ==
    IF Has(t.data, "seriesOrder") THEN t.data.seriesOrder ELSE MaxOrder + 1

\* t.data.seriesOrder || 0, as written in getSeriesTutorials.
SeriesOrder(t) ==
    IF Has(t.data, "seriesOrder") THEN t.data.seriesOrder ELSE 0

\* Variant: descending seriesOrder.
SeriesCompareDescending(arr) ==
    [p \in Range(arr) \X Range(arr) |-> SeriesOrder(p[2]) - SeriesOrder(p[1])]

\* Comparator of the sort in getSeriesTutorials.
SeriesCompare(arr) ==
    [p \in Range(arr) \X Range(arr) |-> SeriesOrder(p[1]) - SeriesOrder(p[2])]

getSeriesTutorials(fs, prod, seriesSlug) ==
    LET members == SelectSeq(getPublishedTutorials(fs, prod),
                             LAMBDA t : Has(t.data, "series") /\ t.data.series = seriesSlug)
    IN ArraySort(members, SeriesCompare(members))

\* Variant: only an absent series returns null.
getSeriesNavigationKeyOnly(fs, prod, tutorial) ==
    IF ~Has(tutorial.data, "series") THEN Null
    ELSE LET seriesTutorials == getSeriesTutorials(fs, prod, tutorial.data.series)
             currentIndex == FindIndex(seriesTutorials, {t \in Range(seriesTutorials) : t.slug = tutorial.slug})
         IN [series |-> seriesTutorials,
             current |-> currentIndex,
             prev |-> IF currentIndex > 0
                      THEN seriesTutorials[currentIndex] ELSE Null,
             next |-> IF currentIndex < Len(seriesTutorials) - 1
                      THEN seriesTutorials[currentIndex + 2] ELSE Null]

\* Variant: `prev` tested with currentIndex > 1.
getSeriesNavigationPrevFromSecond(fs, prod, tutorial) ==
    IF ~HasSeries(tutorial) THEN Null
    ELSE LET seriesTutorials == getSeriesTutorials(fs, prod, tutorial.data.series)
             currentIndex == FindIndex(seriesTutorials, {t \in Range(seriesTutorials) : t.slug = tutorial.slug})
         IN [series |-> seriesTutorials,
             current |-> currentIndex,
             prev |-> IF currentIndex > 1
                      THEN seriesTutorials[currentIndex] ELSE Null,
             next |-> IF currentIndex < Len(seriesTutorials) - 1
                      THEN seriesTutorials[currentIndex + 2] ELSE Null]

getSeriesNavigation(fs, prod, tutorial) ==
    IF ~HasSeries(tutorial) THEN Null
    ELSE LET seriesTutorials == getSeriesTutorials(fs, prod, tutorial.data.series)
             currentIndex == FindIndex(seriesTutorials, {t \in Range(seriesTutorials) : t.slug = tutorial.slug})
         IN [series |-> seriesTutorials,
             current |-> currentIndex,
             prev |-> IF currentIndex > 0
                      THEN seriesTutorials[currentIndex] ELSE Null,
             next |-> IF currentIndex < Len(seriesTutorials) - 1
                      THEN seriesTutorials[currentIndex + 2] ELSE Null]

(***************************************************************************)
(* The content files an author can write.  Each family varies the keys one *)
(* concern of the library reads and leaves the other keys at the base      *)
(* values; the files of one collection are drawn from one family.          *)
(***************************************************************************)
FileSlugs == <<"docker-basics", "rust-basics/index", "rust-basics/01-installation",
               "rust-basics/02-ownership", "sdl3-intro">>

SeriesSlugs == {"rust-basics", "web-dev"}

BaseFrontmatter(slug) ==
    [title |-> slug, description |-> slug, category |-> "programming",
     difficulty |-> "beginner", status |-> "complete", dateCreated |-> 1]

Drop(r, k) == [f \in DOMAIN r \ {k} |-> r[f]]

\* series and seriesOrder
OrderOverlays ==
    {[series |-> s] : s \in SeriesSlugs \cup {""}}
        \cup {[series |-> s, seriesOrder |-> o] : s \in SeriesSlugs, o \in 0..MaxOrder}

\* dateCreated and dateUpdated, standalone or in a series
DateOverlays ==
    {[dateCreated |-> c] : c \in 1..MaxDate}
        \cup {[dateCreated |-> c, dateUpdated |-> u] : c \in 1..MaxDate, u \in 1..MaxDate}
        \cup {[series |-> "rust-basics", dateCreated |-> MaxDate]}
        \cup {[dateCreated |-> MaxDate, estimatedTime |-> "45 min"]}

\* difficulty, standalone or in a series
DifficultyOverlays ==
    {[difficulty |-> d] : d \in Range(difficulties)}
        \cup {[series |-> s, difficulty |-> d] : s \in SeriesSlugs, d \in Range(difficulties)}

\* status, standalone or in a series
StatusOverlays ==
    {[status |-> st] : st \in statuses}
        \cup {[series |-> "rust-basics", status |-> st] : st \in statuses}
        \cup {[series |-> "rust-basics", seriesOrder |-> 1, status |-> st] : st \in statuses}
        \cup {[status |-> "draft", category |-> "devops", tags |-> <<"memory">>]}

\* category and tags, standalone or in a series
LabelOverlays ==
    LET labels == {[category |-> c] : c \in {"programming", "devops"}}
                    \cup {[category |-> c, tags |-> tg] :
                             c \in {"programming", "devops"},
                             tg \in {<<"rust">>, <<"rust", "memory">>}}
    IN labels \cup {[series |-> "rust-basics"] @@ l : l \in labels}

Families == <<OrderOverlays, DateOverlays, DifficultyOverlays, StatusOverlays, LabelOverlays>>

\* Frontmatter the schema rejects: a required key is missing.
RequiredKeys == {"category", "difficulty", "dateCreated"}

Frontmatters(slug, family) ==
    IF family = 0
    THEN {BaseFrontmatter(slug), [series |-> "rust-basics"] @@ BaseFrontmatter(slug)}
            \cup {Drop(BaseFrontmatter(slug), k) : k \in RequiredKeys}
            \cup {Drop([series |-> "rust-basics"] @@ BaseFrontmatter(slug), k) : k \in RequiredKeys}
    ELSE {o @@ BaseFrontmatter(slug) : o \in Families[family]}

\* The collections of up to MaxTutorials files drawn from one of the given
\* families (0: the family with rejected frontmatter).
CollectionsOf(families) ==
    UNION {UNION {{fs \in [1..n -> UNION {[slug : {FileSlugs[i]},
                                           frontmatter : Frontmatters(FileSlugs[i], fam)]
                                          : i \in 1..n}] :
                      \A i \in 1..n : fs[i].slug = FileSlugs[i]}
                  : n \in 0..MaxTutorials}
           : fam \in families}

\* Collections that vary what decides grouping, order and visibility:
\* series and seriesOrder, status, and frontmatter the schema rejects.
Collections == CollectionsOf({0, 1, 4})

\* Collections that vary the fields read by the sorts by date, the
\* difficulty and the category and tag lists.
FieldCollections == CollectionsOf({2, 3, 5})

(***************************************************************************)
(* The build: the collection and the build mode are fixed, and pages call  *)
(* the library.  `result` is the outcome of the last call.                 *)
(***************************************************************************)
Returned(op, arg, value) == [op |-> op, arg |-> arg, outcome |-> "returned", value |-> value]

Threw(op, arg) == [op |-> op, arg |-> arg, outcome |-> "threw", value |-> Null]

NoCall == [op |-> "none", arg |-> Null, outcome |-> "none", value |-> Null]

Init ==
    /\ files \in Collections
    /\ PROD \in BOOLEAN
    /\ result = NoCall
    /\ calls = <<>>

\* Variant: a collection that fails to load is organised as an empty list.
CallGetOrganizedTutorialsMasking ==
    /\ result' = IF CollectionLoads(files)
                 THEN Returned("getOrganizedTutorials", Null, getOrganizedTutorials(files, PROD))
                 ELSE Returned("getOrganizedTutorials", Null,
                               [standalone |-> <<>>, series |-> <<>>,
                                categories |-> <<>>, tags |-> <<>>])
    /\ UNCHANGED <<files, PROD, calls>>

\* Variant: the loaded list itself is sorted by date, without the copy
\* that filter makes.
CallGetOrganizedTutorialsSortsInPlace ==
    /\ result' = IF CollectionLoads(files)
                 THEN Returned("getOrganizedTutorials", Null, getOrganizedTutorials(files, PROD))
                 ELSE Threw("getOrganizedTutorials", Null)
    /\ files' = IF CollectionLoads(files)
                THEN ArraySort(files,
                               [p \in Range(files) \X Range(files) |->
                                   EffectiveDate([data |-> p[2].frontmatter])
                                       - EffectiveDate([data |-> p[1].frontmatter])])
                ELSE files
    /\ UNCHANGED <<PROD, calls>>

\* A listing page awaits getOrganizedTutorials().
CallGetOrganizedTutorials ==
    /\ result' = IF CollectionLoads(files)
                 THEN Returned("getOrganizedTutorials", Null, getOrganizedTutorials(files, PROD))
                 ELSE Threw("getOrganizedTutorials", Null)
    /\ UNCHANGED <<files, PROD, calls>>

\* getStaticPaths of the tutorial page: one page per entry of the
\* unfiltered collection.
getStaticPaths(fs) == getCollection(fs)

\* A tutorial page awaits getSeriesNavigation(tutorial).
CallGetSeriesNavigation ==
    /\ CollectionLoads(files)
    /\ \E i \in 1..Len(files) :
          LET tutorial == getStaticPaths(files)[i]
          IN result' = Returned("getSeriesNavigation", tutorial,
                                getSeriesNavigation(files, PROD, tutorial))
    /\ UNCHANGED <<files, PROD, calls>>

\* The build asks the tutorial page for its routes.
CallGetStaticPaths ==
    /\ result' = IF CollectionLoads(files)
                 THEN Returned("getStaticPaths", Null, getStaticPaths(files))
                 ELSE Threw("getStaticPaths", Null)
    /\ UNCHANGED <<files, PROD, calls>>

Next ==
    \/ CallGetOrganizedTutorials
    \/ CallGetSeriesNavigation
    \/ CallGetStaticPaths

Spec == Init /\ [][Next]_vars

\* The same build over the collections that vary dates, difficulty,
\* categories and tags.
InitFields ==
    /\ files \in FieldCollections
    /\ PROD \in BOOLEAN
    /\ result = NoCall
    /\ calls = <<>>

SpecFields == InitFields /\ [][Next]_vars

\* Collections that vary status, category and tags.
LabelCollections == CollectionsOf({4, 5})

\* A page awaits getCategories().
CallGetCategories ==
    /\ result' = IF CollectionLoads(files)
                 THEN Returned("getCategories", Null, getCategories(files, PROD))
                 ELSE Threw("getCategories", Null)
    /\ UNCHANGED <<files, PROD, calls>>

\* A page awaits getTags().
CallGetTags ==
    /\ result' = IF CollectionLoads(files)
                 THEN Returned("getTags", Null, getTags(files, PROD))
                 ELSE Threw("getTags", Null)
    /\ UNCHANGED <<files, PROD, calls>>

\* A build whose pages ask for the organised tutorials, the categories and
\* the tags.
InitLabels ==
    /\ files \in LabelCollections
    /\ PROD \in BOOLEAN
    /\ result = NoCall
    /\ calls = <<>>

NextLabels ==
    \/ CallGetOrganizedTutorials
    \/ CallGetCategories
    \/ CallGetTags

SpecLabels == InitLabels /\ [][NextLabels]_vars

TypeOK == result.outcome \in {"none", "returned", "threw"}

(***************************************************************************)
(* A server rendering pages on demand: several invocations are in flight   *)
(* at once, each suspended at its awaits.  calls[i] is invocation i: its   *)
(* position, its local seriesTutorials and the value it returned.          *)
(***************************************************************************)
MaxCalls == 2

\* series, seriesOrder and status of the files of the served collections
ServerOverlays ==
    {[series |-> "rust-basics", seriesOrder |-> 1],
     [series |-> "web-dev"],
     [series |-> "rust-basics", status |-> "draft"]}

ServerCollections ==
    UNION {{fs \in [1..n -> UNION {[slug : {FileSlugs[i]},
                                    frontmatter : {o @@ BaseFrontmatter(FileSlugs[i]) :
                                                      o \in ServerOverlays}]
                                   : i \in 1..n}] :
               \A i \in 1..n : fs[i].slug = FileSlugs[i]}
           : n \in 0..MaxTutorials}

Idle == [op |-> "none", arg |-> Null, pc |-> "idle", seriesTutorials |-> <<>>, value |-> Null]

InitServer ==
    /\ files \in ServerCollections
    /\ PROD \in BOOLEAN
    /\ result = NoCall
    /\ calls = [i \in 1..MaxCalls |-> Idle]

\* getOrganizedTutorials() runs up to its await of getPublishedTutorials().
InvokeGetOrganizedTutorials(i) ==
    /\ calls[i].pc = "idle"
    /\ calls' = [calls EXCEPT ![i] = [Idle EXCEPT !.op = "getOrganizedTutorials",
                                                  !.pc = "await getPublishedTutorials"]]
    /\ UNCHANGED <<files, PROD, result>>

\* Variant: the `series` array lives outside the function, so a call pushes
\* onto what the calls before it pushed.
ResumeGetOrganizedTutorialsAccumulating(i) ==
    /\ calls[i].op = "getOrganizedTutorials"
    /\ calls[i].pc = "await getPublishedTutorials"
    /\ LET own == getOrganizedTutorials(files, PROD)
           before == {j \in 1..MaxCalls :
                         calls[j].op = "getOrganizedTutorials" /\ calls[j].pc = "done"}
       IN calls' = [calls EXCEPT
                       ![i].pc = "done",
                       ![i].value = IF before = {} THEN own
                                    ELSE [own EXCEPT !.series = own.series \o own.series]]
    /\ UNCHANGED <<files, PROD, result>>

\* The loader resolves and the rest of getOrganizedTutorials runs to its
\* return without another await.
ResumeGetOrganizedTutorials(i) ==
    /\ calls[i].op = "getOrganizedTutorials"
    /\ calls[i].pc = "await getPublishedTutorials"
    /\ calls' = [calls EXCEPT
                    ![i].pc = IF CollectionLoads(files) THEN "done" ELSE "threw",
                    ![i].value = IF CollectionLoads(files)
                                 THEN getOrganizedTutorials(files, PROD) ELSE Null]
    /\ UNCHANGED <<files, PROD, result>>

\* getSeriesNavigation(tutorial) returns null at once or runs into
\* getSeriesTutorials, which stops at its await of getPublishedTutorials().
InvokeGetSeriesNavigation(i) ==
    /\ calls[i].pc = "idle"
    /\ CollectionLoads(files)
    /\ \E k \in 1..Len(files) :
          LET tutorial == getStaticPaths(files)[k]
          IN calls' = [calls EXCEPT ![i] =
                          [Idle EXCEPT !.op = "getSeriesNavigation",
                                       !.arg = tutorial,
                                       !.pc = IF HasSeries(tutorial)
                                              THEN "in getSeriesTutorials" ELSE "done"]]
    /\ UNCHANGED <<files, PROD, result>>

\* The loader resolves inside getSeriesTutorials, which filters, sorts and
\* returns; getSeriesNavigation is still suspended at its own await.
ResumeGetSeriesTutorials(i) ==
    /\ calls[i].op = "getSeriesNavigation"
    /\ calls[i].pc = "in getSeriesTutorials"
    /\ calls' = [calls EXCEPT
                    ![i].pc = "await getSeriesTutorials",
                    ![i].seriesTutorials =
                        getSeriesTutorials(files, PROD, calls[i].arg.data.series)]
    /\ UNCHANGED <<files, PROD, result>>

\* Lines 113-120: the index of the tutorial and its neighbours.
NavigationIn(seriesTutorials, tutorial) ==
    LET currentIndex == FindIndex(seriesTutorials,
                                  {t \in Range(seriesTutorials) : t.slug = tutorial.slug})
    IN [series |-> seriesTutorials,
        current |-> currentIndex,
        prev |-> IF currentIndex > 0 THEN seriesTutorials[currentIndex] ELSE Null,
        next |-> IF currentIndex < Len(seriesTutorials) - 1
                 THEN seriesTutorials[currentIndex + 2] ELSE Null]

\* Variant: seriesTutorials is a variable outside the function, so the
\* continuation reads what any invocation stored there.
ResumeGetSeriesNavigationShared(i) ==
    /\ calls[i].op = "getSeriesNavigation"
    /\ calls[i].pc = "await getSeriesTutorials"
    /\ \E j \in 1..MaxCalls :
          /\ calls[j].op = "getSeriesNavigation"
          /\ calls[j].pc \in {"await getSeriesTutorials", "done"}
          /\ HasSeries(calls[j].arg)
          /\ calls' = [calls EXCEPT
                          ![i].pc = "done",
                          ![i].value = NavigationIn(calls[j].seriesTutorials, calls[i].arg)]
    /\ UNCHANGED <<files, PROD, result>>

\* getSeriesNavigation resumes with its seriesTutorials and returns.
ResumeGetSeriesNavigation(i) ==
    /\ calls[i].op = "getSeriesNavigation"
    /\ calls[i].pc = "await getSeriesTutorials"
    /\ calls' = [calls EXCEPT
                    ![i].pc = "done",
                    ![i].value = NavigationIn(calls[i].seriesTutorials, calls[i].arg)]
    /\ UNCHANGED <<files, PROD, result>>

NextServer ==
    \E i \in 1..MaxCalls :
        \/ InvokeGetOrganizedTutorials(i)
        \/ ResumeGetOrganizedTutorials(i)
        \/ InvokeGetSeriesNavigation(i)
        \/ ResumeGetSeriesTutorials(i)
        \/ ResumeGetSeriesNavigation(i)

SpecServer == InitServer /\ [][NextServer]_vars

(***************************************************************************)
(* A development server: the author saves content files between requests,  *)
(* so the loader returns a different collection to a later call.  `result` *)
(* is the outcome of the last call and `calls` holds, for the last two     *)
(* calls, the list the loader returned during the call (the local          *)
(* `tutorials`).                                                           *)
(***************************************************************************)
\* a member of a series or a standalone draft
WatchOverlays ==
    {[series |-> "rust-basics"], [status |-> "draft"]}

WatchFrontmatters(slug) == {o @@ BaseFrontmatter(slug) : o \in WatchOverlays}

WatchCollections ==
    UNION {{fs \in [1..n -> UNION {[slug : {FileSlugs[i]},
                                    frontmatter : WatchFrontmatters(FileSlugs[i])]
                                   : i \in 1..n}] :
               \A i \in 1..n : fs[i].slug = FileSlugs[i]}
           : n \in 0..MaxTutorials}

InitWatch ==
    /\ files \in WatchCollections
    /\ PROD \in BOOLEAN
    /\ result = NoCall
    /\ calls = <<>>

\* The author adds a file, deletes the last file or rewrites the
\* frontmatter of a file.
ChangeCollection ==
    /\ \/ /\ Len(files) < MaxTutorials
          /\ \E fm \in WatchFrontmatters(FileSlugs[Len(files) + 1]) :
                files' = Append(files, [slug |-> FileSlugs[Len(files) + 1], frontmatter |-> fm])
       \/ /\ Len(files) > 0
          /\ files' = SubSeq(files, 1, Len(files) - 1)
       \/ \E i \in 1..Len(files) :
             \E fm \in WatchFrontmatters(files[i].slug) \ {files[i].frontmatter} :
                files' = [files EXCEPT ![i].frontmatter = fm]
    /\ UNCHANGED <<PROD, result, calls>>

\* The locals of the last two calls, after a call that loaded `tutorials`.
Loaded(tutorials) ==
    IF Len(calls) = 0 THEN <<[tutorials |-> tutorials]>>
    ELSE <<calls[Len(calls)], [tutorials |-> tutorials]>>

\* Variant: the organised result is kept in a module variable and returned
\* again by the next call of getOrganizedTutorials.
WatchGetOrganizedTutorialsCached ==
    /\ result' = IF result.op = "getOrganizedTutorials" THEN result
                 ELSE Returned("getOrganizedTutorials", Null, getOrganizedTutorials(files, PROD))
    /\ calls' = Loaded(getPublishedTutorials(files, PROD))
    /\ UNCHANGED <<files, PROD>>

\* A request of a listing page: getOrganizedTutorials().
WatchGetOrganizedTutorials ==
    /\ result' = IF CollectionLoads(files)
                 THEN Returned("getOrganizedTutorials", Null, getOrganizedTutorials(files, PROD))
                 ELSE Threw("getOrganizedTutorials", Null)
    /\ calls' = IF CollectionLoads(files)
                THEN Loaded(getPublishedTutorials(files, PROD)) ELSE calls
    /\ UNCHANGED <<files, PROD>>

\* getSeriesTutorials(seriesSlug)
WatchGetSeriesTutorials ==
    /\ \E seriesSlug \in SeriesSlugs :
          result' = IF CollectionLoads(files)
                    THEN Returned("getSeriesTutorials", seriesSlug,
                                  getSeriesTutorials(files, PROD, seriesSlug))
                    ELSE Threw("getSeriesTutorials", seriesSlug)
    /\ calls' = IF CollectionLoads(files)
                THEN Loaded(getPublishedTutorials(files, PROD)) ELSE calls
    /\ UNCHANGED <<files, PROD>>

\* A request of a tutorial page: getSeriesNavigation(tutorial); only a
\* tutorial with a series reaches the loader.
WatchGetSeriesNavigation ==
    /\ CollectionLoads(files)
    /\ \E i \in 1..Len(files) :
          LET tutorial == getStaticPaths(files)[i]
          IN /\ result' = Returned("getSeriesNavigation", tutorial,
                                   getSeriesNavigation(files, PROD, tutorial))
             /\ calls' = IF HasSeries(tutorial)
                         THEN Loaded(getPublishedTutorials(files, PROD)) ELSE calls
    /\ UNCHANGED <<files, PROD>>

NextWatch ==
    \/ ChangeCollection
    \/ WatchGetOrganizedTutorials
    \/ WatchGetSeriesTutorials
    \/ WatchGetSeriesNavigation

SpecWatch == InitWatch /\ [][NextWatch]_vars

(***************************************************************************)
(* The learning path page (pages/paths/[slug].astro).  startsWith reads    *)
(* the characters of a slug, so here a slug and a series value are         *)
(* sequences of characters.                                                *)
(***************************************************************************)
MaxPath == 2

\* String.prototype.startsWith
StartsWith(str, searchString) ==
    /\ Len(searchString) <= Len(str)
    /\ SubSeq(str, 1, Len(searchString)) = searchString

\* path.data.tutorials.map(slug => allTutorials.find(...)).filter(Boolean)
pathTutorials(fs, slugs) ==
    LET allTutorials == getCollection(fs)
        found == [i \in 1..Len(slugs) |->
                     LET at == FindIndex(allTutorials,
                                         {t \in Range(allTutorials) :
                                             t.slug = slugs[i] \/ StartsWith(t.slug, slugs[i])})
                     IN IF at >= 0 THEN allTutorials[at + 1] ELSE Null]
    IN SelectSeq(found, LAMBDA t : t # Null)

\* The content files: go/1 and go/2 of the series go, and the standalone
\* tutorials gold and c.
PathFiles ==
    {[slug |-> <<"g", "o", "/", "1">>,
      frontmatter |-> [series |-> <<"g", "o">>] @@ BaseFrontmatter(<<"g", "o", "/", "1">>)],
     [slug |-> <<"g", "o", "/", "2">>,
      frontmatter |-> [series |-> <<"g", "o">>] @@ BaseFrontmatter(<<"g", "o", "/", "2">>)],
     [slug |-> <<"g", "o", "l", "d">>, frontmatter |-> BaseFrontmatter(<<"g", "o", "l", "d">>)],
     [slug |-> <<"c">>, frontmatter |-> BaseFrontmatter(<<"c">>)]}

\* Collections of up to MaxTutorials of these files, in any order.
PathCollections ==
    UNION {{fs \in [1..n -> PathFiles] : \A i, j \in 1..n : i # j => fs[i] # fs[j]}
           : n \in 0..MaxTutorials}

\* What a path lists: the series go, the tutorials gold and c, and g, which
\* names nothing.
PathSlugs == {<<"g", "o">>, <<"g", "o", "l", "d">>, <<"c">>, <<"g">>}

Paths == UNION {[1..n -> PathSlugs] : n \in 0..MaxPath}

InitPaths ==
    /\ files \in PathCollections
    /\ PROD \in BOOLEAN
    /\ result = NoCall
    /\ calls = <<>>

\* The page of a learning path resolves the slugs the path lists.
RenderPathPage ==
    /\ \E slugs \in Paths :
          result' = Returned("paths/[slug].astro", slugs, pathTutorials(files, slugs))
    /\ UNCHANGED <<files, PROD, calls>>

NextPaths == RenderPathPage

SpecPaths == InitPaths /\ [][NextPaths]_vars

(***************************************************************************)
(* The landing page (pages/index.astro).                                   *)
(***************************************************************************)
\* Array.prototype.slice(0, end)
Slice(arr, end) == SubSeq(arr, 1, IF end < Len(arr) THEN end ELSE Len(arr))

\* standalone.slice(0, 4) and series.slice(0, 2)
recentItems(organized) ==
    [recentStandalone |-> Slice(organized.standalone, 4),
     recentSeries |-> Slice(organized.series, 2)]

\* dateCreated, standalone or in one of three series
LandingOverlays ==
    {[dateCreated |-> c] : c \in 1..MaxDate}
        \cup {[series |-> sr, dateCreated |-> c] :
                 sr \in SeriesSlugs \cup {"sdl3"}, c \in 1..MaxDate}

LandingCollections ==
    UNION {{fs \in [1..n -> UNION {[slug : {FileSlugs[i]},
                                    frontmatter : {o @@ BaseFrontmatter(FileSlugs[i]) :
                                                      o \in LandingOverlays}]
                                   : i \in 1..n}] :
               \A i \in 1..n : fs[i].slug = FileSlugs[i]}
           : n \in 0..MaxTutorials}

InitLanding ==
    /\ files \in LandingCollections
    /\ PROD \in BOOLEAN
    /\ result = NoCall
    /\ calls = <<>>

\* The landing page awaits getOrganizedTutorials() and cuts its lists.
RenderLandingPage ==
    /\ result' = IF CollectionLoads(files)
                 THEN Returned("index.astro", Null,
                               recentItems(getOrganizedTutorials(files, PROD)))
                 ELSE Threw("index.astro", Null)
    /\ UNCHANGED <<files, PROD, calls>>

NextLanding == RenderLandingPage

SpecLanding == InitLanding /\ [][NextLanding]_vars

(***************************************************************************)
(* Properties.                                                             *)
(***************************************************************************)
OrganizedReturned == result.op = "getOrganizedTutorials" /\ result.outcome = "returned"

NavigationReturned ==
    /\ result.op = "getSeriesNavigation"
    /\ result.outcome = "returned"
    /\ result.value # Null

\* Position of a tutorial in the collection, by its slug.
FileIndex(t) == CHOOSE i \in 1..Len(FileSlugs) : FileSlugs[i] = t.slug

\* C1: getOrganizedTutorials places every tutorial of the list returned by
\* getPublishedTutorials exactly once: in `standalone` iff its series is
\* absent or empty, otherwise in the tutorials of exactly one Series (also a
\* series of one); nothing is lost, duplicated, in both groups, or added.
C1_Partition ==
    OrganizedReturned =>
        LET org == result.value
            input == getPublishedTutorials(files, PROD)
            grouped == Flatten([k \in 1..Len(org.series) |-> org.series[k].tutorials])
            placed == org.standalone \o grouped
        IN /\ Len(placed) = Len(input)
           /\ Range(placed) = Range(input)
           /\ \A t \in Range(input) :
                 /\ Cardinality({i \in 1..Len(placed) : placed[i] = t}) = 1
                 /\ t \in Range(org.standalone)
                        <=> ("series" \notin DOMAIN t.data \/ t.data.series = "")
                 /\ t \notin Range(org.standalone)
                        => Cardinality({k \in 1..Len(org.series) :
                                           t \in Range(org.series[k].tutorials)}) = 1

\* A tutorial with an empty series is standalone next to a series of one.
C1_Witness ==
    /\ OrganizedReturned
    /\ \E t \in Range(result.value.standalone) :
          "series" \in DOMAIN t.data /\ t.data.series = ""
    /\ \E k \in 1..Len(result.value.series) : Len(result.value.series[k].tutorials) = 1

\* C2: for a tutorial at 0-based position i of its series' sorted members,
\* getSeriesNavigation returns current = i, series[current] has its slug,
\* prev is the member at i-1 and null iff i = 0, next is the member at i+1
\* and null iff i is the last index.
C2_NavigationPosition ==
    NavigationReturned =>
        LET nav == result.value
            n == Len(nav.series)
        IN \A i \in 0..(n - 1) :
              nav.series[i + 1].slug = result.arg.slug =>
                 /\ nav.current = i
                 /\ nav.series[nav.current + 1].slug = result.arg.slug
                 /\ (nav.prev = Null) <=> (i = 0)
                 /\ i > 0 => nav.prev = nav.series[i]
                 /\ (nav.next = Null) <=> (i = n - 1)
                 /\ i < n - 1 => nav.next = nav.series[i + 2]

\* The middle member of a series of three: both neighbours exist.
C2_Witness ==
    /\ NavigationReturned
    /\ Len(result.value.series) = 3
    /\ result.value.current = 1
    /\ result.value.prev = result.value.series[1]
    /\ result.value.next = result.value.series[3]

\* C3: getSeriesNavigation called with a tutorial that has a series but
\* whose slug is not among the tutorials loaded for that series fails with
\* an error; it never returns a navigation object for such a tutorial.
C3_NotFoundFails ==
    (/\ result.op = "getSeriesNavigation"
     /\ "series" \in DOMAIN result.arg.data
     /\ result.arg.data.series # ""
     /\ \A t \in Range(getSeriesTutorials(files, PROD, result.arg.data.series)) :
           t.slug # result.arg.slug)
        => result.outcome = "threw"

\* C4: getOrganizedTutorials rejects whenever a tutorial lacks a required
\* field (category, difficulty, dateCreated; the slug is never missing): it
\* returns no result computed from such a record.
C4_MissingFieldRejected ==
    (/\ result.op = "getOrganizedTutorials"
     /\ \E i \in 1..Len(files) :
           \/ "slug" \notin DOMAIN files[i]
           \/ \E k \in {"category", "difficulty", "dateCreated"} :
                 k \notin DOMAIN files[i].frontmatter)
        => result.outcome = "threw"

\* A collection of three files, one of them without a difficulty, was
\* rejected.
C4_Witness ==
    /\ result.op = "getOrganizedTutorials"
    /\ result.outcome = "threw"
    /\ Len(files) = 3
    /\ Cardinality({i \in 1..Len(files) :
                       "difficulty" \notin DOMAIN files[i].frontmatter}) = 1
    /\ \A i \in 1..Len(files) : "category" \in DOMAIN files[i].frontmatter

\* C5: in every Series of getOrganizedTutorials, `tutorials` is sorted
\* non-decreasing by seriesOrder, a missing seriesOrder counting as 0.
C5_SeriesSorted ==
    OrganizedReturned =>
        \A k \in 1..Len(result.value.series) :
            LET ts == result.value.series[k].tutorials
                order(t) == IF "seriesOrder" \in DOMAIN t.data THEN t.data.seriesOrder ELSE 0
            IN \A i, j \in 1..Len(ts) : i < j => order(ts[i]) <= order(ts[j])

\* A member without seriesOrder was moved in front of a member with a
\* positive seriesOrder that precedes it in the collection.
C5_Witness ==
    /\ OrganizedReturned
    /\ \E k \in 1..Len(result.value.series) :
          LET ts == result.value.series[k].tutorials
          IN /\ Len(ts) >= 2
             /\ "seriesOrder" \notin DOMAIN ts[1].data
             /\ "seriesOrder" \in DOMAIN ts[2].data
             /\ ts[2].data.seriesOrder > 0
             /\ FileIndex(ts[2]) < FileIndex(ts[1])

\* C6: within a series, two members with equal effective seriesOrder keep
\* the relative order of the input list, and duplicates cause no error.
C6_SeriesStable ==
    /\ OrganizedReturned =>
          \A k \in 1..Len(result.value.series) :
              LET ts == result.value.series[k].tutorials
                  order(t) == IF "seriesOrder" \in DOMAIN t.data THEN t.data.seriesOrder ELSE 0
              IN \A i, j \in 1..Len(ts) :
                    (i < j /\ order(ts[i]) = order(ts[j]))
                        => FileIndex(ts[i]) < FileIndex(ts[j])
    /\ (result.op = "getOrganizedTutorials" /\ result.outcome = "threw")
          => \E i \in 1..Len(files) :
                {"category", "difficulty", "dateCreated"} \ DOMAIN files[i].frontmatter # {}

\* A member without seriesOrder and a later member with seriesOrder 0 stay
\* in input order, in front of an earlier member with seriesOrder 1.
C6_Witness ==
    /\ OrganizedReturned
    /\ \E k \in 1..Len(result.value.series) :
          LET ts == result.value.series[k].tutorials
          IN /\ Len(ts) = 3
             /\ "seriesOrder" \notin DOMAIN ts[1].data
             /\ "seriesOrder" \in DOMAIN ts[2].data /\ ts[2].data.seriesOrder = 0
             /\ "seriesOrder" \in DOMAIN ts[3].data /\ ts[3].data.seriesOrder = 1
             /\ FileIndex(ts[3]) < FileIndex(ts[1])
             /\ FileIndex(ts[1]) < FileIndex(ts[2])

\* C7: the `series` list of getSeriesNavigation(t) equals, element for
\* element, the `tutorials` of the Series with slug t.series that
\* getOrganizedTutorials returns over the same collection.
C7_NavigationMatchesOrganizer ==
    NavigationReturned =>
        LET organized == getOrganizedTutorials(files, PROD).series
        IN /\ \A k \in 1..Len(organized) :
                 organized[k].slug = result.arg.data.series
                     => result.value.series = organized[k].tutorials
           /\ (\A k \in 1..Len(organized) : organized[k].slug # result.arg.data.series)
                 => result.value.series = <<>>

\* The navigation of a series of three whose members the sort reordered.
C7_Witness ==
    /\ NavigationReturned
    /\ Len(result.value.series) = 3
    /\ FileIndex(result.value.series[1]) > FileIndex(result.value.series[2])
    /\ "seriesOrder" \notin DOMAIN result.value.series[1].data
    /\ \E k \in 1..Len(getOrganizedTutorials(files, PROD).series) :
          getOrganizedTutorials(files, PROD).series[k].slug = result.arg.data.series

\* C8: `standalone` is ordered non-increasing by effective date: dateUpdated
\* when present, dateCreated otherwise.
C8_StandaloneSorted ==
    OrganizedReturned =>
        LET ts == result.value.standalone
            date(t) == IF "dateUpdated" \in DOMAIN t.data
                       THEN t.data.dateUpdated ELSE t.data.dateCreated
        IN \A i, j \in 1..Len(ts) : i < j => date(ts[i]) >= date(ts[j])

\* An updated tutorial was moved in front of an earlier file that was
\* created no earlier than it but not updated since.
C8_Witness ==
    /\ OrganizedReturned
    /\ LET ts == result.value.standalone
       IN /\ Len(ts) >= 2
          /\ "dateUpdated" \in DOMAIN ts[1].data
          /\ "dateUpdated" \notin DOMAIN ts[2].data
          /\ ts[1].data.dateUpdated > ts[2].data.dateCreated
          /\ ts[1].data.dateCreated <= ts[2].data.dateCreated
          /\ FileIndex(ts[2]) < FileIndex(ts[1])

\* C9: two standalone tutorials with equal effective dates keep the
\* relative order of the input list.
C9_StandaloneStable ==
    OrganizedReturned =>
        LET ts == result.value.standalone
            date(t) == IF "dateUpdated" \in DOMAIN t.data
                       THEN t.data.dateUpdated ELSE t.data.dateCreated
        IN \A i, j \in 1..Len(ts) :
              (i < j /\ date(ts[i]) = date(ts[j])) => FileIndex(ts[i]) < FileIndex(ts[j])

\* Two tutorials of the same effective date, one by dateUpdated and one by
\* dateCreated, stay in input order in front of an earlier, older file.
C9_Witness ==
    /\ OrganizedReturned
    /\ LET ts == result.value.standalone
       IN /\ Len(ts) = 3
          /\ "dateUpdated" \in DOMAIN ts[1].data
          /\ "dateUpdated" \notin DOMAIN ts[2].data
          /\ ts[1].data.dateUpdated = ts[2].data.dateCreated
          /\ ts[1].data.dateCreated < ts[2].data.dateCreated
          /\ ts[3].data.dateCreated < ts[2].data.dateCreated
          /\ "dateUpdated" \notin DOMAIN ts[3].data
          /\ FileIndex(ts[3]) < FileIndex(ts[1])
          /\ FileIndex(ts[1]) < FileIndex(ts[2])

\* C10: the difficulty of every Series is the maximum difficulty of its
\* members under beginner < intermediate < advanced.
C10_SeriesDifficulty ==
    OrganizedReturned =>
        \A k \in 1..Len(result.value.series) :
            LET sr == result.value.series[k]
                level(d) == CASE d = "beginner" -> 0
                              [] d = "intermediate" -> 1
                              [] d = "advanced" -> 2
            IN /\ \E i \in 1..Len(sr.tutorials) : sr.tutorials[i].data.difficulty = sr.difficulty
               /\ \A i \in 1..Len(sr.tutorials) :
                     level(sr.tutorials[i].data.difficulty) <= level(sr.difficulty)

\* A series whose hardest member is neither its first nor its last.
C10_Witness ==
    /\ OrganizedReturned
    /\ \E k \in 1..Len(result.value.series) :
          LET sr == result.value.series[k]
          IN /\ Len(sr.tutorials) = 3
             /\ sr.tutorials[1].data.difficulty = "beginner"
             /\ sr.tutorials[2].data.difficulty = "advanced"
             /\ sr.tutorials[3].data.difficulty = "intermediate"
             /\ sr.difficulty = "advanced"

\* C11: title, description and category of every Series are those of the
\* first member of the sorted `tutorials` whose seriesOrder is exactly 0,
\* or of the first member when no member has seriesOrder exactly 0.
C11_SeriesIndex ==
    OrganizedReturned =>
        \A k \in 1..Len(result.value.series) :
            LET sr == result.value.series[k]
                ts == sr.tutorials
                zeros == {i \in 1..Len(ts) :
                             "seriesOrder" \in DOMAIN ts[i].data /\ ts[i].data.seriesOrder = 0}
                at == IF zeros = {} THEN 1
                      ELSE CHOOSE i \in zeros : \A j \in zeros : i <= j
            IN /\ sr.title = ts[at].data.title
               /\ sr.description = ts[at].data.description
               /\ sr.category = ts[at].data.category

\* The first sorted member has no seriesOrder, so the Series takes its
\* title from a later member with seriesOrder 0.
C11_Witness ==
    /\ OrganizedReturned
    /\ \E k \in 1..Len(result.value.series) :
          LET sr == result.value.series[k]
          IN /\ Len(sr.tutorials) >= 2
             /\ "seriesOrder" \notin DOMAIN sr.tutorials[1].data
             /\ "seriesOrder" \in DOMAIN sr.tutorials[2].data
             /\ sr.tutorials[2].data.seriesOrder = 0
             /\ sr.title = sr.tutorials[2].data.title
             /\ sr.title # sr.tutorials[1].data.title

\* C12: getOrganizedTutorials returns exactly one Series per distinct
\* non-empty series value of the input, in the order in which the values
\* are first met in the input list.
C12_SeriesFirstSeen ==
    OrganizedReturned =>
        LET input == getPublishedTutorials(files, PROD)
            sr == result.value.series
            named(v) == {i \in 1..Len(input) :
                            "series" \in DOMAIN input[i].data /\ input[i].data.series = v}
            first(v) == CHOOSE i \in named(v) : \A j \in named(v) : i <= j
        IN /\ {sr[k].slug : k \in 1..Len(sr)}
                 = {input[i].data.series : i \in {j \in 1..Len(input) :
                        "series" \in DOMAIN input[j].data /\ input[j].data.series # ""}}
           /\ \A k, l \in 1..Len(sr) : k < l =>
                 /\ sr[k].slug # sr[l].slug
                 /\ first(sr[k].slug) < first(sr[l].slug)

\* Two series, the one met first not being the first in alphabetical order,
\* and the second one met between two members of the first.
C12_Witness ==
    /\ OrganizedReturned
    /\ Len(result.value.series) = 2
    /\ result.value.series[1].slug = "web-dev"
    /\ result.value.series[2].slug = "rust-basics"
    /\ Len(result.value.series[1].tutorials) = 2

\* C13: `categories` and `tags` are each sorted ascending without
\* duplicates and equal the set of category values and the union of the
\* tags of all input tutorials, members of series included.
C13_CategoriesAndTags ==
    OrganizedReturned =>
        LET input == getPublishedTutorials(files, PROD)
            cs == result.value.categories
            tg == result.value.tags
        IN /\ \A i, j \in 1..Len(cs) : i < j => CodeUnitRank(cs[i]) < CodeUnitRank(cs[j])
           /\ \A i, j \in 1..Len(tg) : i < j => CodeUnitRank(tg[i]) < CodeUnitRank(tg[j])
           /\ Range(cs) = {input[i].data.category : i \in 1..Len(input)}
           /\ Range(tg) = UNION {Range(input[i].data.tags) : i \in 1..Len(input)}

\* A category used only by the second member of a series is listed, in
\* front of the category of the other tutorials, and the tags are sorted.
C13_Witness ==
    /\ OrganizedReturned
    /\ result.value.categories = <<"devops", "programming">>
    /\ result.value.tags = <<"memory", "rust">>
    /\ \A t \in Range(result.value.standalone) : t.data.category = "programming"
    /\ \E k \in 1..Len(result.value.series) :
          LET sr == result.value.series[k]
          IN /\ Len(sr.tutorials) = 2
             /\ sr.category = "programming"
             /\ sr.tutorials[2].data.category = "devops"

\* C14: getSeriesNavigation returns null for a tutorial whose series is
\* absent or empty and a navigation object for every tutorial whose series
\* is a non-empty string.
C14_NullIffNoSeries ==
    (result.op = "getSeriesNavigation" /\ result.outcome = "returned") =>
        ((result.value = Null)
            <=> ("series" \notin DOMAIN result.arg.data \/ result.arg.data.series = ""))

\* null was returned for a tutorial whose series is the empty string.
C14_Witness ==
    /\ result.op = "getSeriesNavigation"
    /\ result.outcome = "returned"
    /\ result.value = Null
    /\ "series" \in DOMAIN result.arg.data
    /\ result.arg.data.series = ""

\* C15: in a production build getPublishedTutorials returns exactly the
\* tutorials that are not drafts, so no draft is in `standalone` or in a
\* Series or contributes a category or tag; otherwise it returns every
\* tutorial, drafts included.
C15_DraftsFiltered ==
    OrganizedReturned =>
        LET all == getCollection(files)
            kept == {t \in Range(all) : ~PROD \/ t.data.status # "draft"}
            org == result.value
            placed == Range(org.standalone)
                         \cup UNION {Range(org.series[k].tutorials) : k \in 1..Len(org.series)}
        IN /\ placed = kept
           /\ Range(org.categories) = {t.data.category : t \in kept}
           /\ Range(org.tags) = UNION {Range(t.data.tags) : t \in kept}
           /\ PROD => \A t \in placed : t.data.status # "draft"
           /\ ~PROD => placed = Range(all)

\* A production build over a draft with a category and a tag of its own, a
\* draft member of a series and a published member of that series.
C15_Witness ==
    /\ OrganizedReturned
    /\ PROD
    /\ Len(files) = 3
    /\ \E i \in 1..Len(files) :
          /\ files[i].frontmatter.status = "draft"
          /\ files[i].frontmatter.category = "devops"
    /\ \E i \in 1..Len(files) :
          /\ files[i].frontmatter.status = "draft"
          /\ "series" \in DOMAIN files[i].frontmatter
    /\ result.value.standalone = <<>>
    /\ Len(result.value.series) = 1
    /\ Len(result.value.series[1].tutorials) = 1
    /\ result.value.series[1].tutorials[1].data.status = "in-progress"
    /\ result.value.categories = <<"programming">>
    /\ result.value.tags = <<>>

\* C16: in a production build getStaticPaths generates no tutorial page
\* route for a tutorial whose status is draft.
C16_NoDraftRoutes ==
    (result.op = "getStaticPaths" /\ result.outcome = "returned" /\ PROD) =>
        \A i \in 1..Len(result.value) : result.value[i].data.status # "draft"

\* C18: no call changes the loaded tutorial list (same elements, same
\* order), and every tutorial record in a result is an unmodified record
\* of that list, estimatedTime included.
C18_InputUnchanged ==
    /\ [][files' = files]_vars
    /\ [](OrganizedReturned =>
            LET org == result.value
            IN /\ Range(org.standalone) \subseteq Range(getCollection(files))
               /\ \A k \in 1..Len(org.series) :
                     Range(org.series[k].tutorials) \subseteq Range(getCollection(files)))
    /\ [](NavigationReturned =>
            /\ Range(result.value.series) \subseteq Range(getCollection(files))
            /\ result.value.prev \in Range(getCollection(files)) \cup {Null}
            /\ result.value.next \in Range(getCollection(files)) \cup {Null})

\* The sort moved the second file, which carries an estimatedTime, to the
\* front of `standalone`; the collection still has it second.
C18_Witness ==
    /\ OrganizedReturned
    /\ Len(result.value.standalone) = 3
    /\ "estimatedTime" \in DOMAIN result.value.standalone[1].data
    /\ result.value.standalone[1].data.estimatedTime = "45 min"
    /\ FileIndex(result.value.standalone[1]) = 2
    /\ files[2].frontmatter.estimatedTime = "45 min"
    /\ files[2].slug = result.value.standalone[1].slug

C19_Independent ==
    \A i \in 1..MaxCalls :
        calls[i].pc = "done" =>
            calls[i].value = IF calls[i].op = "getOrganizedTutorials"
                             THEN getOrganizedTutorials(files, PROD)
                             ELSE getSeriesNavigation(files, PROD, calls[i].arg)

\* A navigation of one series has returned while a navigation of another
\* series, already holding its seriesTutorials, is still suspended.
C19_Witness ==
    /\ calls[1].op = "getSeriesNavigation" /\ calls[1].pc = "done"
    /\ calls[1].value # Null
    /\ calls[1].value.current = 1
    /\ calls[2].op = "getSeriesNavigation" /\ calls[2].pc = "await getSeriesTutorials"
    /\ calls[2].arg.data.series # calls[1].arg.data.series
    /\ Len(calls[2].seriesTutorials) = 1

C21_CurrentInRange ==
    NavigationReturned =>
        /\ 0 <= result.value.current
        /\ result.value.current < Len(result.value.series)
        /\ result.value.series[result.value.current + 1] = result.arg

\* const Layout = seriesNav ? SeriesLayout : TutorialLayout
Layout(seriesNav) == IF seriesNav # Null THEN "SeriesLayout" ELSE "TutorialLayout"

\* C22: for every tutorial of the published collection, the tutorial page
\* uses SeriesLayout, getSeriesNavigation being non-null, exactly when
\* getOrganizedTutorials places the tutorial in a Series, and TutorialLayout,
\* getSeriesNavigation being null, exactly when it places it in `standalone`.
C22_LayoutMatchesOrganizer ==
    (/\ result.op = "getSeriesNavigation"
     /\ result.outcome = "returned"
     /\ result.arg \in Range(getPublishedTutorials(files, PROD)))
        => LET org == getOrganizedTutorials(files, PROD)
               inSeries == \E k \in 1..Len(org.series) :
                              result.arg \in Range(org.series[k].tutorials)
               inStandalone == result.arg \in Range(org.standalone)
           IN /\ (result.value = Null) <=> inStandalone
              /\ (result.value # Null) <=> inSeries
              /\ (Layout(result.value) = "SeriesLayout") <=> inSeries
              /\ (Layout(result.value) = "TutorialLayout") <=> inStandalone

\* The page of a tutorial whose series is the empty string uses
\* TutorialLayout: the organizer has it in `standalone`, next to a Series.
C22_Witness ==
    /\ result.op = "getSeriesNavigation"
    /\ result.outcome = "returned"
    /\ Layout(result.value) = "TutorialLayout"
    /\ "series" \in DOMAIN result.arg.data
    /\ result.arg \in Range(getOrganizedTutorials(files, PROD).standalone)
    /\ Len(getOrganizedTutorials(files, PROD).series) = 1

\* C23: navigation is symmetric within a series: if getSeriesNavigation(t)
\* has next = u then getSeriesNavigation(u) has prev = t, and following
\* `next` from the first member visits every member of the series once, in
\* sorted order, before reaching null.
C23_NavigationSymmetric ==
    NavigationReturned =>
        LET members == result.value.series
        IN /\ result.value.next # Null
                 => getSeriesNavigation(files, PROD, result.value.next).prev = result.arg
           /\ \A i \in 1..Len(members) :
                 getSeriesNavigation(files, PROD, members[i]).next
                     = IF i < Len(members) THEN members[i + 1] ELSE Null

\* C24: in every result of getOrganizedTutorials each Series has at least
\* one member, every member's `series` equals the Series' slug, no two
\* Series share a slug, and the tutorial that supplied the Series' title,
\* description and category is one of its `tutorials`.
C24_SeriesWellFormed ==
    OrganizedReturned =>
        LET sr == result.value.series
        IN /\ \A k \in 1..Len(sr) :
                 /\ Len(sr[k].tutorials) >= 1
                 /\ \A t \in Range(sr[k].tutorials) :
                       "series" \in DOMAIN t.data /\ t.data.series = sr[k].slug
                 /\ \E t \in Range(sr[k].tutorials) :
                       /\ t.data.title = sr[k].title
                       /\ t.data.description = sr[k].description
                       /\ t.data.category = sr[k].category
           /\ \A k, l \in 1..Len(sr) : k # l => sr[k].slug # sr[l].slug

\* Two Series, one of a single member, the other taking its title from its
\* second member, which stays in `tutorials`.
C24_Witness ==
    /\ OrganizedReturned
    /\ Len(result.value.series) = 2
    /\ \E k, l \in 1..2 :
          /\ Len(result.value.series[k].tutorials) = 1
          /\ Len(result.value.series[l].tutorials) = 2
          /\ result.value.series[l].title = result.value.series[l].tutorials[2].data.title

\* C25: in every result of getOrganizedTutorials the category of every
\* standalone tutorial, of every Series and of every Series member is in
\* `categories` and every tag of every tutorial of the result is in `tags`;
\* conversely every element of `categories` and of `tags` is used by at
\* least one tutorial of the result.
C25_LabelsCoverResult ==
    OrganizedReturned =>
        LET org == result.value
            all == Range(org.standalone)
                      \cup UNION {Range(org.series[k].tutorials) : k \in 1..Len(org.series)}
        IN /\ \A t \in all : t.data.category \in Range(org.categories)
           /\ \A k \in 1..Len(org.series) : org.series[k].category \in Range(org.categories)
           /\ \A t \in all : Range(t.data.tags) \subseteq Range(org.tags)
           /\ \A c \in Range(org.categories) : \E t \in all : t.data.category = c
           /\ \A g \in Range(org.tags) : \E t \in all : g \in Range(t.data.tags)

\* The category devops and the tag memory are each used by one tutorial
\* only, the second member of a series, memory as its second tag.
C25_Witness ==
    /\ OrganizedReturned
    /\ Len(result.value.standalone) = 1
    /\ Len(result.value.series) = 1
    /\ LET sr == result.value.series[1]
       IN /\ Len(sr.tutorials) = 2
          /\ sr.category = "programming"
          /\ sr.tutorials[1].data.tags = <<>>
          /\ sr.tutorials[2].data.category = "devops"
          /\ sr.tutorials[2].data.tags = <<"rust", "memory">>
    /\ result.value.standalone[1].data.tags = <<"rust">>
    /\ "devops" \in Range(result.value.categories)
    /\ "memory" \in Range(result.value.tags)

\* C26: over the same collection and build mode getCategories() returns the
\* list getOrganizedTutorials() returns as `categories`, and getTags() the
\* list it returns as `tags`.
C26_HelpersAgree ==
    /\ (result.op = "getCategories" /\ result.outcome = "returned")
          => result.value = getOrganizedTutorials(files, PROD).categories
    /\ (result.op = "getTags" /\ result.outcome = "returned")
          => result.value = getOrganizedTutorials(files, PROD).tags

\* getCategories() returned two categories, the one met second sorted
\* first, over a collection whose tags also are met out of order.
C26_Witness ==
    /\ result.op = "getCategories"
    /\ result.outcome = "returned"
    /\ result.value = <<"devops", "programming">>
    /\ files[1].frontmatter.category = "programming"
    /\ getOrganizedTutorials(files, PROD).tags = <<"memory", "rust">>

\* C27: nothing is cached across calls: every call loads the collection as
\* it is at that call, and what getOrganizedTutorials, getSeriesTutorials
\* and getSeriesNavigation return holds exactly the contents loaded during
\* that call, nothing of an earlier call.
C27_NoCache ==
    /\ [][calls' # calls =>
             calls'[Len(calls')].tutorials = getPublishedTutorials(files', PROD')]_vars
    /\ [](OrganizedReturned =>
            LET loaded == Range(calls[Len(calls)].tutorials)
                org == result.value
            IN /\ Range(org.standalone)
                     \cup UNION {Range(org.series[k].tutorials) : k \in 1..Len(org.series)}
                        = loaded
               /\ Range(org.categories) = {t.data.category : t \in loaded}
               /\ Range(org.tags) = UNION {Range(t.data.tags) : t \in loaded})
    /\ []((result.op = "getSeriesTutorials" /\ result.outcome = "returned") =>
            Range(result.value)
                = {t \in Range(calls[Len(calls)].tutorials) :
                      "series" \in DOMAIN t.data /\ t.data.series = result.arg})
    /\ [](NavigationReturned =>
            LET loaded == Range(calls[Len(calls)].tutorials)
            IN /\ Range(result.value.series)
                     = {t \in loaded : "series" \in DOMAIN t.data
                                          /\ t.data.series = result.arg.data.series}
               /\ result.value.current >= 0 <=> result.arg \in loaded
               /\ result.value.prev \in loaded \cup {Null}
               /\ result.value.next \in loaded \cup {Null})

\* Between two calls a member of the series was deleted and another was
\* rewritten as a standalone draft: the second call returns the one member
\* left and the draft, not the three members the first call loaded.
C27_Witness ==
    /\ OrganizedReturned
    /\ ~PROD
    /\ Len(calls) = 2
    /\ Len(calls[1].tutorials) = 3
    /\ \A i \in 1..3 : "series" \in DOMAIN calls[1].tutorials[i].data
    /\ Len(calls[2].tutorials) = 2
    /\ Len(result.value.series) = 1
    /\ Len(result.value.series[1].tutorials) = 1
    /\ Len(result.value.standalone) = 1
    /\ result.value.standalone[1].data.status = "draft"

\* C28: on a path page every slug the path lists resolves, in listed
\* order, to the tutorial whose slug equals it or, for a series slug, to a
\* member of the series with exactly that slug; never to a tutorial whose
\* slug merely begins with the same characters; a slug with no such tutorial
\* is omitted.
C28_PathResolves ==
    result.op = "paths/[slug].astro" =>
        LET all == Range(getCollection(files))
            named(slug) == {t \in all : \/ t.slug = slug
                                         \/ ("series" \in DOMAIN t.data /\ t.data.series = slug)}
            kept == SelectSeq(result.arg, LAMBDA slug : named(slug) # {})
        IN /\ Len(result.value) = Len(kept)
           /\ \A i \in 1..Len(kept) : result.value[i] \in named(kept[i])

\* C29: on the landing page `recentStandalone` is the (up to) 4 standalone
\* tutorials with the greatest effective dates and `recentSeries` is the
\* (up to) 2 most recently created or updated Series among all the Series
\* getOrganizedTutorials returns.
C29_RecentItems ==
    (result.op = "index.astro" /\ result.outcome = "returned") =>
        LET org == getOrganizedTutorials(files, PROD)
            shown == result.value
            date(t) == IF "dateUpdated" \in DOMAIN t.data
                       THEN t.data.dateUpdated ELSE t.data.dateCreated
            newest(sr) == CHOOSE d \in {date(t) : t \in Range(sr.tutorials)} :
                              \A t \in Range(sr.tutorials) : date(t) <= d
        IN /\ Len(shown.recentStandalone)
                 = (IF Len(org.standalone) < 4 THEN Len(org.standalone) ELSE 4)
           /\ Range(shown.recentStandalone) \subseteq Range(org.standalone)
           /\ \A t \in Range(shown.recentStandalone) :
                 \A u \in Range(org.standalone) \ Range(shown.recentStandalone) :
                     date(t) >= date(u)
           /\ Len(shown.recentSeries) = (IF Len(org.series) < 2 THEN Len(org.series) ELSE 2)
           /\ Range(shown.recentSeries) \subseteq Range(org.series)
           /\ \A sr \in Range(shown.recentSeries) :
                 \A other \in Range(org.series) \ Range(shown.recentSeries) :
                     newest(sr) >= newest(other)

====
